---- MODULE Spec2Model ----
(***************************************************************************)
(* Budget Recommender API (backend/backend.py).                            *)
(*                                                                         *)
(* The module-level code locates and loads a model bundle, normalises it   *)
(* into the globals model / encoders / feature_order, and then serves      *)
(* GET / and POST /predict.  Sync endpoints run in the server's thread     *)
(* pool, so several predict calls may be in progress at once; each call is *)
(* modelled statement group by statement group with its own locals.        *)
(*                                                                         *)
(* Conventions.  A Python value that may be None is a sequence of length   *)
(* 0 (None) or 1 (the value).  Float fields are carried in hundredths      *)
(* (cutoff_rate 0.3 is 30); a model's raw output is carried in tenths so   *)
(* that int() has something to truncate.                                   *)
(***************************************************************************)
EXTENDS Integers, Sequences, FiniteSets, TLC

VARIABLES
    disk,           \* candidate file name -> None | Some(artifact)
    pc,             \* position of the module-level code
    idx,            \* loop position in "for name in candidate_names"
    bundle_path,    \* None | Some(path)
    startupError,   \* None | Some(exception raised by the module-level code)
    loaded,         \* None | Some(artifact returned by joblib.load)
    model,          \* None | Some(model)
    encoders,       \* None | Some(encoder dict)
    feature_order,  \* None | Some(sequence of column names)
    rootResp,       \* per worker: None | Some(body of the GET / response being sent)
    hpc,            \* per worker: position in the request it is handling
    body,           \* per call: the JSON body received
    category_enc,   \* per call: local category_enc
    priority_enc,   \* per call: local priority_enc
    X,              \* per call: local X (the one-row frame handed to the model)
    invoked,        \* per call: whether model.predict was called
    resp,           \* per call: the HTTP outcome
    anyFailed       \* some earlier predict call ended in an error response

bundleVars == <<bundle_path, loaded, model, encoders, feature_order>>
startVars  == <<disk, pc, idx, startupError>>
callVars   == <<hpc, body, category_enc, priority_enc, X, invoked, resp>>
vars == <<disk, pc, idx, bundle_path, startupError, loaded, model, encoders,
          feature_order, rootResp, hpc, body, category_enc, priority_enc, X,
          invoked, resp, anyFailed>>

(***************************************************************************)
(* Bounds                                                                  *)
(***************************************************************************)
NumProfiles == 2    \* distinct settings of the seven numeric fields
NumCalls == 2       \* requests that may be in progress at once

None == <<>>
Some(v) == <<v>>
IsNone(o) == Len(o) = 0
Val(o) == o[1]

SeqToSet(s) == {s[i] : i \in 1..Len(s)}

(***************************************************************************)
(* Bundle location (lines 15-33)                                           *)
(***************************************************************************)
candidate_names == <<"recommender_bundle.pkl", "recommendation_bundle.pkl">>

\* backend_dir / name
PathOf(name) == [dir |-> "backend_dir", name |-> name]

\* ", ".join(str(backend_dir / n) for n in candidate_names)
TriedPaths == [i \in 1..Len(candidate_names) |-> PathOf(candidate_names[i])]

DEFAULT_FEATURE_ORDER ==
    <<"income_x", "income_y", "expense_amount",
      "category_enc", "priority_enc", "cutoff_rate",
      "total_expenses", "expense_ratio", "risk_flag">>

(***************************************************************************)
(* What the bundle file may hold (line 14, lines 34-53)                    *)
(***************************************************************************)
\* Models.  "classifier" is a fitted binary estimator: it checks the width of
\* its input against the nine training columns and yields class 0 or 1.
\* "scorer" is any other object with a predict method: it takes a frame of
\* any width and yields a real score.
Models == {"classifier", "scorer"}

\* A fitted LabelEncoder is its sorted classes_; a label's code is its
\* 0-based position there.
CategoryClasses == <<"Bills", "Education", "Food">>
PriorityClasses == <<"Essential", "High", "Low">>
CurrencyClasses == <<"RWF", "USD">>

EncodersFull ==
    [category |-> CategoryClasses, priority_flag |-> PriorityClasses,
     currency |-> CurrencyClasses]
\* a bundle exported without the priority_flag encoder
EncodersNoPriority == [category |-> CategoryClasses, currency |-> CurrencyClasses]

EncoderValues == {None, Some(EncodersFull), Some(EncodersNoPriority)}

Reverse(s) == [i \in 1..Len(s) |-> s[Len(s) + 1 - i]]

FeatureOrderValues ==
    { None,
      Some(Reverse(DEFAULT_FEATURE_ORDER)),
      Some(<<"income_x", "category_enc", "priority_enc">>),
      Some(DEFAULT_FEATURE_ORDER \o <<"income_x">>),
      Some(DEFAULT_FEATURE_ORDER \o <<"currency_enc">>) }

BundleKeys == {"model", "encoders", "feature_order"}

\* A pickled dict: the keys it has, and the value under each of them.
DictArtifact(keys, m, e, f) ==
    [shape |-> "dict", keys |-> keys, model |-> m, encoders |-> e,
     feature_order |-> f]

\* A pickled bare estimator.
BareArtifact(m) ==
    [shape |-> "bare", keys |-> {}, model |-> Some(m), encoders |-> None,
     feature_order |-> None]

\* A file joblib cannot deserialise.
CorruptArtifact ==
    [shape |-> "corrupt", keys |-> {}, model |-> None, encoders |-> None,
     feature_order |-> None]

DictArtifacts ==
    \* bundles with a model, with or without the two optional keys
    { DictArtifact({"model"} \cup (IF ek THEN {"encoders"} ELSE {})
                             \cup (IF fk THEN {"feature_order"} ELSE {}),
                   Some(m),
                   IF ek THEN e ELSE None,
                   IF fk THEN f ELSE None) :
        m \in Models, ek \in BOOLEAN, fk \in BOOLEAN,
        e \in EncoderValues, f \in FeatureOrderValues }
    \cup
    \* a dict without a "model" key, and one whose model is None
    { DictArtifact({"encoders"}, None, Some(EncodersFull), None),
      DictArtifact({"model"}, None, None, None) }

Artifacts == DictArtifacts \cup {BareArtifact(m) : m \in Models} \cup {CorruptArtifact}

AltArtifact == BareArtifact("scorer")

(***************************************************************************)
(* Bundle normalisation (lines 43-53)                                      *)
(***************************************************************************)
\* d.get(k)
DictGet(d, k) == IF k \in d.keys THEN d[k] ELSE None

\* d.get(k, default)
DictGetDefault(d, k, default) == IF k \in d.keys THEN d[k] ELSE default

\* The three globals as lines 43-53 leave them.
Normalise(a) ==
    IF a.shape = "dict"
    THEN [model |-> DictGet(a, "model"),
          encoders |-> DictGet(a, "encoders"),
          feature_order |-> DictGetDefault(a, "feature_order",
                                           Some(DEFAULT_FEATURE_ORDER))]
    ELSE [model |-> a.model,
          encoders |-> None,
          feature_order |-> Some(DEFAULT_FEATURE_ORDER)]

(***************************************************************************)
(* Request bodies and the ExpenseInput schema (lines 69-83)                *)
(***************************************************************************)
\* One member of a JSON object: its key and its value, a string or a number.
Member(k, sv, nv) == [key |-> k, sval |-> sv, nval |-> nv]
Num(k, n) == Member(k, None, Some(n))
Str(k, s) == Member(k, Some(s), None)

\* The seven numeric fields.  Profile 1 is the documented scenario
\* (5000, 2000, 300, 0.3, 1200, 0.24, 0).
Profiles == 1..NumProfiles
NumericFields(k) ==
    [income_x |-> 500000 + 100 * (k - 1),
     income_y |-> 200000 + 300 * (k - 1),
     expense_amount |-> 30000 + 700 * (k - 1),
     cutoff_rate |-> 30 + (k - 1),
     total_expenses |-> 120000 + 1100 * (k - 1),
     expense_ratio |-> 24 + 2 * (k - 1),
     risk_flag |-> (k - 1) % 2]

CategoryLabels == {"Food", "Bills", "Gift"}      \* "Gift" was never trained on
PriorityLabels == {"High", "Urgent"}             \* "Urgent" was never trained on
CategoryCodes == {0, 2}
PriorityCodes == {1}

OptOf(S) == {None} \cup {Some(v) : v \in S}

OptStr(k, o) == IF IsNone(o) THEN <<>> ELSE <<Str(k, Val(o))>>
OptNum(k, o) == IF IsNone(o) THEN <<>> ELSE <<Num(k, Val(o))>>

\* The body a client sends, members in the schema's order; an optional field
\* that is None is left out of the object.
CanonicalBody(k, c, p, ce, pe) ==
    LET n == NumericFields(k) IN
      <<Num("income_x", n.income_x), Num("income_y", n.income_y),
        Num("expense_amount", n.expense_amount)>>
      \o OptStr("category", c) \o OptStr("priority_flag", p)
      \o (IF k % 2 = 0 THEN <<Str("currency", "USD")>> ELSE <<>>)
      \o OptNum("category_enc", ce) \o OptNum("priority_enc", pe)
      \o <<Num("cutoff_rate", n.cutoff_rate),
           Num("total_expenses", n.total_expenses),
           Num("expense_ratio", n.expense_ratio),
           Num("risk_flag", n.risk_flag)>>

ValidBodies ==
    LET canon == { CanonicalBody(k, c, p, ce, pe) :
                     k \in Profiles, c \in OptOf(CategoryLabels),
                     p \in OptOf(PriorityLabels),
                     ce \in OptOf(CategoryCodes), pe \in OptOf(PriorityCodes) }
    IN canon \cup {Reverse(b) : b \in canon}

\* A body the schema rejects: income_x is missing.
InvalidBody == Tail(CanonicalBody(1, Some("Food"), Some("High"), None, None))

Bodies == ValidBodies \cup {InvalidBody}

HasKey(b, k) == \E i \in 1..Len(b) : b[i].key = k
Entry(b, k) == b[CHOOSE i \in 1..Len(b) : b[i].key = k]

RequiredFloat == {"income_x", "income_y", "expense_amount", "cutoff_rate",
                  "total_expenses", "expense_ratio"}
RequiredInt == {"risk_flag"}

\* Whether pydantic accepts the body as an ExpenseInput.
SchemaValid(b) ==
    /\ \A k \in RequiredFloat \cup RequiredInt :
          HasKey(b, k) /\ ~IsNone(Entry(b, k).nval)
    /\ \A k \in {"category", "priority_flag", "currency"} :
          HasKey(b, k) => ~IsNone(Entry(b, k).sval)
    /\ \A k \in {"category_enc", "priority_enc"} :
          HasKey(b, k) => ~IsNone(Entry(b, k).nval)

OptionalStr(b, k) == IF HasKey(b, k) THEN Entry(b, k).sval ELSE None
OptionalInt(b, k) == IF HasKey(b, k) THEN Entry(b, k).nval ELSE None

\* The ExpenseInput pydantic builds from a valid body: fields are found by
\* key, wherever they stand in the object.
ExpenseInput(b) ==
    [income_x |-> Val(Entry(b, "income_x").nval),
     income_y |-> Val(Entry(b, "income_y").nval),
     expense_amount |-> Val(Entry(b, "expense_amount").nval),
     category |-> OptionalStr(b, "category"),
     priority_flag |-> OptionalStr(b, "priority_flag"),
     currency |-> OptionalStr(b, "currency"),
     category_enc |-> OptionalInt(b, "category_enc"),
     priority_enc |-> OptionalInt(b, "priority_enc"),
     cutoff_rate |-> Val(Entry(b, "cutoff_rate").nval),
     total_expenses |-> Val(Entry(b, "total_expenses").nval),
     expense_ratio |-> Val(Entry(b, "expense_ratio").nval),
     risk_flag |-> Val(Entry(b, "risk_flag").nval)]

(***************************************************************************)
(* predict, as pure steps (lines 104-152)                                  *)
(***************************************************************************)
DetailStrings == "Provide 'category' and 'priority_flag' as strings."
DetailNoEncoders ==
    "Model bundle has no encoders. Provide numeric 'category_enc' and 'priority_enc', or re-export a bundle with encoders."

\* Mutant of Transform: codes counted from 1.
TransformOneBased(classes, label) ==
    IF label \in SeqToSet(classes)
    THEN Some(CHOOSE i \in 1..Len(classes) : classes[i] = label)
    ELSE None

\* Mutant of Transform: an unseen label gets the next free code.
TransformUnseenAsNew(classes, label) ==
    IF label \in SeqToSet(classes)
    THEN Some((CHOOSE i \in 1..Len(classes) : classes[i] = label) - 1)
    ELSE Some(Len(classes))

\* LabelEncoder.transform([label])[0]: the label's 0-based position in
\* classes_, or ValueError (None here) for a label not in classes_.
Transform(classes, label) ==
    IF label \in SeqToSet(classes)
    THEN Some((CHOOSE i \in 1..Len(classes) : classes[i] = label) - 1)
    ELSE None

\* int(encoders[field].transform([label])[0])
EncodeField(enc, field, label) ==
    IF field \notin DOMAIN enc
    THEN [exc |-> "KeyError", code |-> None]
    ELSE IF IsNone(Transform(enc[field], label))
         THEN [exc |-> "ValueError", code |-> None]
         ELSE [exc |-> "", code |-> Transform(enc[field], label)]

Resolved(kind, detail, ce, pe) ==
    [kind |-> kind, detail |-> detail, category_enc |-> ce, priority_enc |-> pe]

\* Mutant of ResolveEncodings: with encoders present and a string missing,
\* the integer codes are used when the request carries them.
ResolveEncodingsFallback(enc, e) ==
    IF ~IsNone(enc) /\ ~(IsNone(e.category) \/ IsNone(e.priority_flag))
    THEN LET c == EncodeField(Val(enc), "category", Val(e.category))
             p == EncodeField(Val(enc), "priority_flag", Val(e.priority_flag))
         IN IF c.exc # "" THEN Resolved("raise", c.exc, None, None)
            ELSE IF p.exc # "" THEN Resolved("raise", p.exc, c.code, None)
            ELSE Resolved("ok", "", c.code, p.code)
    ELSE IF IsNone(e.category_enc) \/ IsNone(e.priority_enc)
         THEN Resolved("http400",
                       IF ~IsNone(enc) THEN DetailStrings ELSE DetailNoEncoders,
                       None, None)
         ELSE Resolved("ok", "", e.category_enc, e.priority_enc)

\* Mutant of ResolveEncodings: the 400 message names only the field that is
\* missing.
ResolveEncodingsNamingField(enc, e) ==
    IF ~IsNone(enc)
    THEN IF IsNone(e.category) \/ IsNone(e.priority_flag)
         THEN Resolved("http400",
                       IF IsNone(e.category) /\ IsNone(e.priority_flag)
                       THEN DetailStrings
                       ELSE IF IsNone(e.category)
                            THEN "Provide 'category' as a string."
                            ELSE "Provide 'priority_flag' as a string.",
                       None, None)
         ELSE LET c == EncodeField(Val(enc), "category", Val(e.category))
                  p == EncodeField(Val(enc), "priority_flag", Val(e.priority_flag))
              IN IF c.exc # "" THEN Resolved("raise", c.exc, None, None)
                 ELSE IF p.exc # "" THEN Resolved("raise", p.exc, c.code, None)
                 ELSE Resolved("ok", "", c.code, p.code)
    ELSE IF IsNone(e.category_enc) \/ IsNone(e.priority_enc)
         THEN Resolved("http400", DetailNoEncoders, None, None)
         ELSE Resolved("ok", "", e.category_enc, e.priority_enc)

\* Lines 104-125: how category_enc and priority_enc are obtained.
ResolveEncodings(enc, e) ==
    IF ~IsNone(enc)
    THEN IF IsNone(e.category) \/ IsNone(e.priority_flag)
         THEN Resolved("http400", DetailStrings, None, None)
         ELSE LET c == EncodeField(Val(enc), "category", Val(e.category))
                  p == EncodeField(Val(enc), "priority_flag", Val(e.priority_flag))
              IN IF c.exc # "" THEN Resolved("raise", c.exc, None, None)
                 ELSE IF p.exc # "" THEN Resolved("raise", p.exc, c.code, None)
                 ELSE Resolved("ok", "", c.code, p.code)
    ELSE IF IsNone(e.category_enc) \/ IsNone(e.priority_enc)
         THEN Resolved("http400", DetailNoEncoders, None, None)
         ELSE Resolved("ok", "", e.category_enc, e.priority_enc)

\* Lines 127-137: the row dict.
BuildRow(e, ce, pe) ==
    [income_x |-> e.income_x,
     income_y |-> e.income_y,
     expense_amount |-> e.expense_amount,
     category_enc |-> ce,
     priority_enc |-> pe,
     cutoff_rate |-> e.cutoff_rate,
     total_expenses |-> e.total_expenses,
     expense_ratio |-> e.expense_ratio,
     risk_flag |-> e.risk_flag]

Frame(cols, vals) == [columns |-> cols, values |-> vals]

\* Mutant of SelectColumns: the frame keeps the row's own column order.
SelectColumnsRowOrder(row, fo) ==
    IF IsNone(fo) THEN None
    ELSE IF \E i \in 1..Len(Val(fo)) : Val(fo)[i] \notin DOMAIN row THEN None
    ELSE LET cols == SelectSeq(DEFAULT_FEATURE_ORDER,
                               LAMBDA c : c \in SeqToSet(Val(fo)))
         IN Some(Frame(cols, [i \in 1..Len(cols) |-> row[cols[i]]]))

\* Mutant of SelectColumns: names that are not columns of the row are skipped.
SelectColumnsSkipUnknown(row, fo) ==
    IF IsNone(fo) THEN None
    ELSE LET cols == SelectSeq(Val(fo), LAMBDA c : c \in DOMAIN row)
         IN Some(Frame(cols, [i \in 1..Len(cols) |-> row[cols[i]]]))

\* Line 141: pd.DataFrame([row])[feature_order].  Selecting with a list takes
\* the named columns in the list's order, repeats included; a name that is
\* not a column of the frame, or a None selector, raises KeyError (None here).
SelectColumns(row, fo) ==
    IF IsNone(fo) THEN None
    ELSE IF \E i \in 1..Len(Val(fo)) : Val(fo)[i] \notin DOMAIN row THEN None
    ELSE Some(Frame(Val(fo), [i \in 1..Len(Val(fo)) |-> row[Val(fo)[i]]]))

RECURSIVE WeightedSum(_, _)
WeightedSum(vals, i) ==
    IF i = 0 THEN 0 ELSE i * vals[i] + WeightedSum(vals, i - 1)

\* model.predict(X)[0], in tenths.  Both models read every position of the
\* row, so a row with a value in the wrong place scores differently.
ModelPredict(m, x) ==
    LET score == WeightedSum(x.values, Len(x.values)) IN
    IF m = "classifier"
    THEN IF Len(x.columns) # Len(DEFAULT_FEATURE_ORDER)
         THEN [raised |-> TRUE, y |-> 0]
         ELSE [raised |-> FALSE, y |-> 10 * (score % 2)]
    ELSE [raised |-> FALSE, y |-> score % 25]

\* Mutant of IntCoerce: rounding to the nearest integer.
IntCoerceRound(tenths) ==
    IF tenths >= 0 THEN (tenths + 5) \div 10 ELSE -((5 - tenths) \div 10)

\* int(y) of a real y given in tenths: truncation toward zero.
IntCoerce(tenths) ==
    IF tenths >= 0 THEN tenths \div 10 ELSE -((-tenths) \div 10)

Response(status, detail, flag) ==
    [status |-> status, detail |-> detail, recommend_flag |-> flag]

Outcome(r, x, inv) == [resp |-> r, X |-> x, invoked |-> inv]

\* predict(expense) run from line 104 to its return or raise, against a
\* bundle (m, enc, fo): the response, the frame built and whether
\* model.predict was called.
PredictPure(m, enc, fo, e) ==
    LET r == ResolveEncodings(enc, e) IN
    IF r.kind = "http400" THEN Outcome(Response(400, r.detail, None), None, FALSE)
    ELSE IF r.kind = "raise" THEN Outcome(Response(500, r.detail, None), None, FALSE)
    ELSE LET sel == SelectColumns(BuildRow(e, Val(r.category_enc),
                                              Val(r.priority_enc)), fo)
         IN IF IsNone(sel)
            THEN Outcome(Response(500, "KeyError", None), None, FALSE)
            ELSE IF IsNone(m)
            THEN Outcome(Response(500, "AttributeError", None), sel, FALSE)
            ELSE LET out == ModelPredict(Val(m), Val(sel)) IN
                 IF out.raised
                 THEN Outcome(Response(500, "ValueError", None), sel, TRUE)
                 ELSE Outcome(Response(200, "", Some(IntCoerce(out.y))), sel, TRUE)

(***************************************************************************)
(* Startup: the module-level code (lines 15-53)                            *)
(***************************************************************************)
Calls == 1..NumCalls

Exists(i) == ~IsNone(disk[i])

IdleCalls ==
    /\ hpc = [h \in Calls |-> "idle"]
    /\ body = [h \in Calls |-> <<>>]
    /\ category_enc = [h \in Calls |-> None]
    /\ priority_enc = [h \in Calls |-> None]
    /\ X = [h \in Calls |-> None]
    /\ invoked = [h \in Calls |-> FALSE]
    /\ resp = [h \in Calls |-> None]

\* The interpreter has reached line 21; nothing is bound yet.
InitWith(files) ==
    /\ disk \in files
    /\ pc = "resolve"
    /\ idx = 1
    /\ bundle_path = None
    /\ startupError = None
    /\ loaded = None
    /\ model = None
    /\ encoders = None
    /\ feature_order = None
    /\ rootResp = [h \in Calls |-> None]
    /\ IdleCalls
    /\ anyFailed = FALSE

FullArtifact ==
    DictArtifact(BundleKeys, Some("classifier"), Some(EncodersFull),
                 Some(Reverse(DEFAULT_FEATURE_ORDER)))

\* Any artifact, or none, under the primary name; and a second file under the
\* variant name beside no primary file, a bare model, a full bundle or a
\* corrupt file.
Disks ==
    { <<a1, None>> : a1 \in OptOf(Artifacts) }
    \cup { <<a1, Some(AltArtifact)>> :
              a1 \in {None, Some(BareArtifact("classifier")), Some(FullArtifact),
                      Some(CorruptArtifact)} }

Init == InitWith(Disks)

\* Mutant of ProbeCandidate: the loop has no break, so the last existing
\* candidate wins.
ProbeCandidateNoBreak ==
    /\ pc = "resolve"
    /\ bundle_path' = IF Exists(idx) THEN Some(PathOf(candidate_names[idx]))
                      ELSE bundle_path
    /\ idx' = IF idx = Len(candidate_names) THEN idx ELSE idx + 1
    /\ pc' = IF idx = Len(candidate_names) THEN "found" ELSE "resolve"
    /\ UNCHANGED <<disk, startupError, loaded, model, encoders, feature_order,
                   rootResp, anyFailed>>
    /\ UNCHANGED callVars

\* Lines 22-26: one pass of the loop body; break on the first file found.
ProbeCandidate ==
    /\ pc = "resolve"
    /\ IF Exists(idx)
       THEN /\ bundle_path' = Some(PathOf(candidate_names[idx]))
            /\ pc' = "found"
            /\ idx' = idx
       ELSE /\ bundle_path' = bundle_path
            /\ idx' = idx + 1
            /\ pc' = IF idx = Len(candidate_names) THEN "found" ELSE "resolve"
    /\ UNCHANGED <<disk, startupError, loaded, model, encoders, feature_order,
                   rootResp, anyFailed>>
    /\ UNCHANGED callVars

\* Lines 28-33: no candidate exists; FileNotFoundError ends the process.
BundleNotFound ==
    /\ pc = "found"
    /\ IsNone(bundle_path)
    /\ startupError' = Some([exc |-> "FileNotFoundError", tried |-> TriedPaths])
    /\ pc' = "crashed"
    /\ UNCHANGED <<disk, idx, rootResp, anyFailed>>
    /\ UNCHANGED bundleVars
    /\ UNCHANGED callVars

FileAt(path) == disk[CHOOSE i \in 1..Len(candidate_names) : candidate_names[i] = path.name]

\* Line 34: joblib.load(str(bundle_path)).
LoadBundle ==
    /\ pc = "found"
    /\ ~IsNone(bundle_path)
    /\ LET a == Val(FileAt(Val(bundle_path))) IN
         IF a.shape = "corrupt"
         THEN /\ startupError' = Some([exc |-> "UnpicklingError", tried |-> <<>>])
              /\ pc' = "crashed"
              /\ loaded' = loaded
         ELSE /\ loaded' = Some(a)
              /\ pc' = "loaded"
              /\ startupError' = startupError
    /\ UNCHANGED <<disk, idx, bundle_path, model, encoders, feature_order,
                   rootResp, anyFailed>>
    /\ UNCHANGED callVars

\* Lines 43-53, then the app is built and served (lines 60-66, 156).
NormaliseBundle ==
    /\ pc = "loaded"
    /\ LET n == Normalise(Val(loaded)) IN
         /\ model' = n.model
         /\ encoders' = n.encoders
         /\ feature_order' = n.feature_order
    /\ pc' = "serving"
    /\ UNCHANGED <<disk, idx, bundle_path, startupError, loaded, rootResp, anyFailed>>
    /\ UNCHANGED callVars

(***************************************************************************)
(* Serving: GET / (lines 86-92) and POST /predict (lines 95-152)           *)
(***************************************************************************)
Serving == pc = "serving"

\* GET / (lines 86-92): one return statement reading the global bundle_path.
Root(h) ==
    /\ Serving
    /\ hpc[h] = "idle"
    /\ hpc' = [hpc EXCEPT ![h] = "root"]
    /\ rootResp' = [rootResp EXCEPT ![h] =
                       Some([status |-> "ok", message |-> "Budget Recommender API",
                             bundle_path |-> Val(bundle_path)])]
    /\ UNCHANGED <<body, category_enc, priority_enc, X, invoked, resp, anyFailed>>
    /\ UNCHANGED startVars
    /\ UNCHANGED bundleVars

\* The body of GET / is sent.
RootSent(h) ==
    /\ hpc[h] = "root"
    /\ hpc' = [hpc EXCEPT ![h] = "idle"]
    /\ rootResp' = [rootResp EXCEPT ![h] = None]
    /\ UNCHANGED <<body, category_enc, priority_enc, X, invoked, resp, anyFailed>>
    /\ UNCHANGED startVars
    /\ UNCHANGED bundleVars

expense(h) == ExpenseInput(body[h])

Finish(h, r) ==
    /\ resp' = [resp EXCEPT ![h] = Some(r)]
    /\ hpc' = [hpc EXCEPT ![h] = "done"]

\* A POST /predict arrives; FastAPI validates the body against ExpenseInput
\* and answers 422 itself when it does not fit (line 96).
Receive(h, b) ==
    /\ Serving
    /\ hpc[h] = "idle"
    /\ body' = [body EXCEPT ![h] = b]
    /\ IF SchemaValid(b)
       THEN /\ hpc' = [hpc EXCEPT ![h] = "entered"]
            /\ resp' = resp
       ELSE Finish(h, Response(422, "value_error.missing", None))
    /\ UNCHANGED <<category_enc, priority_enc, X, invoked, rootResp, anyFailed>>
    /\ UNCHANGED startVars
    /\ UNCHANGED bundleVars

\* Mutant of Encode: category_enc and priority_enc are module-level names
\* shared by every call instead of locals.
EncodeSharedLocals(h) ==
    /\ hpc[h] = "entered"
    /\ LET r == ResolveEncodings(encoders, expense(h)) IN
         /\ IF r.kind = "ok"
            THEN /\ category_enc' = [g \in Calls |-> r.category_enc]
                 /\ priority_enc' = [g \in Calls |-> r.priority_enc]
                 /\ hpc' = [hpc EXCEPT ![h] = "encoded"]
                 /\ resp' = resp
            ELSE /\ UNCHANGED <<category_enc, priority_enc>>
                 /\ IF r.kind = "http400"
                    THEN Finish(h, Response(400, r.detail, None))
                    ELSE Finish(h, Response(500, r.detail, None))
    /\ UNCHANGED <<body, X, invoked, rootResp, anyFailed>>
    /\ UNCHANGED startVars
    /\ UNCHANGED bundleVars

\* Lines 104-125.
Encode(h) ==
    /\ hpc[h] = "entered"
    /\ LET r == ResolveEncodings(encoders, expense(h)) IN
         /\ category_enc' = [category_enc EXCEPT ![h] = r.category_enc]
         /\ priority_enc' = [priority_enc EXCEPT ![h] = r.priority_enc]
         /\ IF r.kind = "ok"
            THEN /\ hpc' = [hpc EXCEPT ![h] = "encoded"]
                 /\ resp' = resp
            ELSE IF r.kind = "http400"
                 THEN Finish(h, Response(400, r.detail, None))
                 ELSE Finish(h, Response(500, r.detail, None))
    /\ UNCHANGED <<body, X, invoked, rootResp, anyFailed>>
    /\ UNCHANGED startVars
    /\ UNCHANGED bundleVars

\* Lines 127-143.
Assemble(h) ==
    /\ hpc[h] = "encoded"
    /\ LET row == BuildRow(expense(h), Val(category_enc[h]), Val(priority_enc[h]))
           sel == SelectColumns(row, feature_order)
       IN IF IsNone(sel)
          THEN /\ Finish(h, Response(500, "KeyError", None))
               /\ X' = X
          ELSE /\ X' = [X EXCEPT ![h] = sel]
               /\ hpc' = [hpc EXCEPT ![h] = "assembled"]
               /\ resp' = resp
    /\ UNCHANGED <<body, category_enc, priority_enc, invoked, rootResp, anyFailed>>
    /\ UNCHANGED startVars
    /\ UNCHANGED bundleVars

\* Lines 145-152.  With model None the attribute lookup model.predict fails
\* before anything is called.
Infer(h) ==
    /\ hpc[h] = "assembled"
    /\ IF IsNone(model)
       THEN /\ Finish(h, Response(500, "AttributeError", None))
            /\ invoked' = invoked
       ELSE LET out == ModelPredict(Val(model), Val(X[h])) IN
            /\ invoked' = [invoked EXCEPT ![h] = TRUE]
            /\ IF out.raised
               THEN Finish(h, Response(500, "ValueError", None))
               ELSE Finish(h, Response(200, "", Some(IntCoerce(out.y))))
    /\ UNCHANGED <<body, category_enc, priority_enc, X, rootResp, anyFailed>>
    /\ UNCHANGED startVars
    /\ UNCHANGED bundleVars

\* The response is sent and the call's frame is gone.
Respond(h) ==
    /\ hpc[h] = "done"
    /\ anyFailed' = (anyFailed \/ Val(resp[h]).status # 200)
    /\ hpc' = [hpc EXCEPT ![h] = "idle"]
    /\ body' = [body EXCEPT ![h] = <<>>]
    /\ category_enc' = [category_enc EXCEPT ![h] = None]
    /\ priority_enc' = [priority_enc EXCEPT ![h] = None]
    /\ X' = [X EXCEPT ![h] = None]
    /\ invoked' = [invoked EXCEPT ![h] = FALSE]
    /\ resp' = [resp EXCEPT ![h] = None]
    /\ UNCHANGED <<rootResp>>
    /\ UNCHANGED startVars
    /\ UNCHANGED bundleVars

\* One request at a time, any body.
Next ==
    \/ ProbeCandidate
    \/ BundleNotFound
    \/ LoadBundle
    \/ NormaliseBundle
    \/ Root(1)
    \/ RootSent(1)
    \/ \E b \in Bodies : Receive(1, b)
    \/ Encode(1)
    \/ Assemble(1)
    \/ Infer(1)
    \/ Respond(1)

Spec == Init /\ [][Next]_vars

(***************************************************************************)
(* Several requests in progress at once (sync endpoints run in the thread  *)
(* pool), over a few bundles and a few bodies.                             *)
(***************************************************************************)
ScorerBundle ==
    DictArtifact({"model", "encoders"}, Some("scorer"), Some(EncodersFull), None)

ConcDisks ==
    { <<None, None>>,
      <<Some(FullArtifact), None>>,
      <<Some(ScorerBundle), Some(AltArtifact)>>,
      <<None, Some(AltArtifact)>> }

ConcBodies ==
    { CanonicalBody(1, Some("Food"), Some("High"), None, None),
      Reverse(CanonicalBody(2, Some("Bills"), Some("High"), Some(2), Some(1))),
      CanonicalBody(1, Some("Gift"), Some("High"), Some(0), Some(1)),
      CanonicalBody(2, None, None, Some(0), Some(1)),
      CanonicalBody(1, None, Some("High"), None, None) }

InitConc == InitWith(ConcDisks)

NextConc ==
    \/ ProbeCandidate
    \/ BundleNotFound
    \/ LoadBundle
    \/ NormaliseBundle
    \/ \E h \in Calls : Root(h)
    \/ \E h \in Calls : RootSent(h)
    \/ \E h \in Calls : \E b \in ConcBodies : Receive(h, b)
    \/ \E h \in Calls : Encode(h)
    \/ \E h \in Calls : Assemble(h)
    \/ \E h \in Calls : Infer(h)
    \/ \E h \in Calls : Respond(h)

SpecConc == InitConc /\ [][NextConc]_vars

(***************************************************************************)
(* Properties                                                              *)
(***************************************************************************)
NoFileExists == \A i \in 1..Len(candidate_names) : ~Exists(i)
FirstExisting == CHOOSE i \in 1..Len(candidate_names) :
                    Exists(i) /\ \A j \in 1..(i - 1) : ~Exists(j)

\* The call has run lines 104-125 (to the end or to a raise).
PastEncode(h) == hpc[h] \in {"encoded", "assembled", "done"} /\ SchemaValid(body[h])

Status(h) == Val(resp[h]).status

\* The pair of fields the bundle's mode requires is incomplete.
PairIncomplete(h) ==
    IF ~IsNone(encoders)
    THEN ~HasKey(body[h], "category") \/ ~HasKey(body[h], "priority_flag")
    ELSE ~HasKey(body[h], "category_enc") \/ ~HasKey(body[h], "priority_enc")

\* C1: a valid request whose required pair (strings with encoders, codes
\* without) is incomplete ends with HTTP 400 and the model is never invoked,
\* whatever the fields of the other mode hold.
C1_IncompletePairIs400 ==
    \A h \in Calls :
        (PastEncode(h) /\ PairIncomplete(h)) =>
            /\ hpc[h] = "done"
            /\ Status(h) = 400
            /\ ~invoked[h]
            /\ IsNone(X[h])

\* Encoders present, category missing, both integer codes supplied: still 400.
C1_Witness ==
    \E h \in Calls :
        /\ hpc[h] = "done" /\ SchemaValid(body[h]) /\ Status(h) = 400
        /\ ~IsNone(encoders)
        /\ ~HasKey(body[h], "category")
        /\ HasKey(body[h], "category_enc") /\ HasKey(body[h], "priority_enc")

\* The request carrying labels c, p turned into the one carrying their codes.
AsCodes(enc, e) ==
    [e EXCEPT !.category = None, !.priority_flag = None,
              !.category_enc = Some((CHOOSE i \in 1..Len(enc.category) :
                                        enc.category[i] = Val(e.category)) - 1),
              !.priority_enc = Some((CHOOSE i \in 1..Len(enc.priority_flag) :
                                        enc.priority_flag[i] = Val(e.priority_flag)) - 1)]

KnownLabels(h) ==
    /\ ~IsNone(encoders)
    /\ {"category", "priority_flag"} \subseteq DOMAIN Val(encoders)
    /\ HasKey(body[h], "category") /\ HasKey(body[h], "priority_flag")
    /\ Val(expense(h).category) \in SeqToSet(Val(encoders).category)
    /\ Val(expense(h).priority_flag) \in SeqToSet(Val(encoders).priority_flag)

\* C2: with encoders, a request with known labels c, p gives the model the
\* same row and returns the same response as the same model and feature_order
\* without encoders give the request carrying code(c), code(p).
C2_EncoderConsistency ==
    \A h \in Calls :
        (hpc[h] = "done" /\ SchemaValid(body[h]) /\ KnownLabels(h)) =>
            LET ref == PredictPure(model, None, feature_order,
                                   AsCodes(Val(encoders), expense(h)))
            IN /\ X[h] = ref.X
               /\ resp[h] = Some(ref.resp)
               /\ invoked[h] = ref.invoked

\* "Food" and "High" went through the encoders and the model answered.
C2_Witness ==
    \E h \in Calls :
        /\ hpc[h] = "done" /\ SchemaValid(body[h]) /\ KnownLabels(h)
        /\ Val(expense(h).category) = "Food"
        /\ Status(h) = 200

\* The number the body gives under a key, wherever the key stands.
BodyNumbers(b, k) == {b[i].nval : i \in {j \in 1..Len(b) : b[j].key = k}}
BodyLabelCodes(b, k, classes) ==
    {Some(i - 1) : i \in {j \in 1..Len(classes) :
                            \E n \in 1..Len(b) :
                               b[n].key = k /\ b[n].sval = Some(classes[j])}}

ExpectedAt(b, col) ==
    IF col \in {"category_enc", "priority_enc"} /\ ~IsNone(encoders)
    THEN IF col = "category_enc"
         THEN BodyLabelCodes(b, "category", Val(encoders).category)
         ELSE BodyLabelCodes(b, "priority_flag", Val(encoders).priority_flag)
    ELSE BodyNumbers(b, col)

\* C3: the frame handed to the model has exactly the columns of
\* feature_order, in its order, and each position holds the request's (or the
\* encoded) value for that column, in whatever order the body lists its fields.
C3_FrameFollowsFeatureOrder ==
    \A h \in Calls :
        ~IsNone(X[h]) =>
            /\ ~IsNone(feature_order)
            /\ Val(X[h]).columns = Val(feature_order)
            /\ Len(Val(X[h]).values) = Len(Val(feature_order))
            /\ \A i \in 1..Len(Val(feature_order)) :
                  ExpectedAt(body[h], Val(feature_order)[i]) = {Some(Val(X[h]).values[i])}

\* A body sent in reverse field order, a bundle whose feature_order is not
\* the default, and the model invoked.
C3_Witness ==
    \E h \in Calls :
        /\ invoked[h]
        /\ body[h][1].key = "risk_flag"
        /\ feature_order = Some(Reverse(DEFAULT_FEATURE_ORDER))
        /\ ~IsNone(encoders)

Flag(h) == Val(Val(resp[h]).recommend_flag)

AssembledColumns == SeqToSet(DEFAULT_FEATURE_ORDER)

\* The call has run line 141 (to the end or to a raise).
PastAssemble(h) ==
    /\ SchemaValid(body[h])
    /\ ~IsNone(category_enc[h]) /\ ~IsNone(priority_enc[h])
    /\ hpc[h] \in {"assembled", "done"}

HasRepeats(s) == \E i, j \in 1..Len(s) : i # j /\ s[i] = s[j]

NamesUnknownColumn(fo) == \E i \in 1..Len(fo) : fo[i] \notin AssembledColumns

\* feature_order does not list each of the nine assembled columns once.
Mismatch(fo) ==
    \/ SeqToSet(fo) # AssembledColumns
    \/ HasRepeats(fo)

\* C5 as stated: any mismatch between the nine assembled columns and
\* feature_order fails the request without invoking the model.
C5_AnyMismatchFails ==
    \A h \in Calls :
        (PastAssemble(h) /\ hpc[h] = "done" /\ ~IsNone(feature_order)
            /\ Mismatch(Val(feature_order))) =>
            /\ Status(h) = 500
            /\ ~invoked[h]

\* C5 amended: a feature_order naming a column that is not among the nine
\* fails the request (KeyError, 500) before the model is invoked; one that
\* lists a subset of the nine, or repeats some, does not fail assembly: the
\* frame has exactly the listed columns and goes to the model.
C5_UnknownColumnFails ==
    \A h \in Calls :
        (PastAssemble(h) /\ ~IsNone(feature_order)) =>
            IF NamesUnknownColumn(Val(feature_order))
            THEN /\ hpc[h] = "done"
                 /\ Val(resp[h]) = Response(500, "KeyError", None)
                 /\ ~invoked[h]
                 /\ IsNone(X[h])
            ELSE /\ ~IsNone(X[h])
                 /\ Val(X[h]).columns = Val(feature_order)
                 /\ (hpc[h] = "done" /\ ~IsNone(model)) => invoked[h]

\* A feature_order naming "currency_enc" stopped a request at line 141.
C5_Witness ==
    \E h \in Calls :
        /\ PastAssemble(h)
        /\ ~IsNone(feature_order)
        /\ NamesUnknownColumn(Val(feature_order))
        /\ hpc[h] = "done"

\* The fields of the active mode's pair that the body lacks.
MissingFields(h) ==
    {k \in (IF ~IsNone(encoders) THEN {"category", "priority_flag"}
                                 ELSE {"category_enc", "priority_enc"}) :
        ~HasKey(body[h], k)}

\* The request fields a detail string names in quotes (lines 107, 119-120).
FieldsNamed(detail) ==
    IF detail = DetailStrings THEN {"category", "priority_flag"}
    ELSE IF detail = DetailNoEncoders THEN {"category_enc", "priority_enc"}
    ELSE {}

\* C6 as stated: the 400 message names the field(s) actually missing.
C6_DetailNamesMissing ==
    \A h \in Calls :
        (hpc[h] = "done" /\ SchemaValid(body[h]) /\ Status(h) = 400) =>
            FieldsNamed(Val(resp[h]).detail) = MissingFields(h)

\* C6 amended: the 400 message is fixed per mode and names both fields of the
\* active mode's pair, whichever of them is missing.
C6_DetailFixedPerMode ==
    \A h \in Calls :
        (hpc[h] = "done" /\ SchemaValid(body[h]) /\ Status(h) = 400) =>
            /\ MissingFields(h) # {}
            /\ Val(resp[h]).detail =
                  (IF ~IsNone(encoders) THEN DetailStrings ELSE DetailNoEncoders)
            /\ FieldsNamed(Val(resp[h]).detail) =
                  (IF ~IsNone(encoders) THEN {"category", "priority_flag"}
                                        ELSE {"category_enc", "priority_enc"})

\* Only priority_flag is missing, yet the message names category too.
C6_Witness ==
    \E h \in Calls :
        /\ hpc[h] = "done" /\ SchemaValid(body[h]) /\ Status(h) = 400
        /\ MissingFields(h) = {"priority_flag"}
        /\ FieldsNamed(Val(resp[h]).detail) = {"category", "priority_flag"}

AllIdle == \A h \in Calls : hpc[h] = "idle" /\ IsNone(resp[h]) /\ IsNone(rootResp[h])

\* C7: bundle_path resolves to the first candidate that exists, also when
\* both exist; when none exists startup ends in an error listing every
\* candidate path, nothing is loaded and no request is ever served.
C7_FirstExistingOrFatal ==
    /\ (pc # "resolve" /\ ~NoFileExists) =>
          bundle_path = Some(PathOf(candidate_names[FirstExisting]))
    /\ (pc # "resolve" /\ NoFileExists) =>
          /\ IsNone(bundle_path)
          /\ pc \in {"found", "crashed"}
          /\ pc = "found" => ENABLED BundleNotFound /\ ~ENABLED LoadBundle
    /\ NoFileExists =>
          /\ pc # "serving"
          /\ IsNone(loaded) /\ IsNone(model)
          /\ AllIdle
          /\ pc = "crashed" =>
                /\ startupError = Some([exc |-> "FileNotFoundError",
                                        tried |-> TriedPaths])
                /\ SeqToSet(Val(startupError).tried) =
                      {PathOf(candidate_names[i]) : i \in 1..Len(candidate_names)}
    /\ pc = "serving" => ~IsNone(bundle_path) /\ IsNone(startupError)

\* Both files exist and the service runs on the primary one.
C7_Witness ==
    /\ Exists(1) /\ Exists(2)
    /\ pc = "serving"
    /\ bundle_path = Some(PathOf("recommender_bundle.pkl"))
    /\ loaded = disk[1]
    /\ disk[1] # disk[2]

\* C8: once startup completes, model / encoders / feature_order are the
\* dict's entries (encoders absent and feature_order the default when not
\* provided) or, for a bare model, the artifact itself, no encoders and the
\* default; in every case feature_order is a column sequence, never absent.
C8_NormalisedBundle ==
    pc = "serving" =>
        LET a == Val(loaded) IN
          /\ a.shape = "dict" =>
                /\ model = (IF "model" \in a.keys THEN a.model ELSE None)
                /\ encoders = (IF "encoders" \in a.keys THEN a.encoders ELSE None)
                /\ feature_order =
                      (IF "feature_order" \in a.keys
                       THEN a.feature_order ELSE Some(DEFAULT_FEATURE_ORDER))
          /\ a.shape = "bare" =>
                /\ model = a.model
                /\ IsNone(encoders)
                /\ feature_order = Some(DEFAULT_FEATURE_ORDER)
          /\ ~IsNone(feature_order)

\* A label outside its encoder's classes_.
UnseenLabel(h) ==
    /\ ~IsNone(encoders)
    /\ HasKey(body[h], "category") /\ HasKey(body[h], "priority_flag")
    /\ \/ /\ "category" \in DOMAIN Val(encoders)
          /\ Val(expense(h).category) \notin SeqToSet(Val(encoders).category)
       \/ /\ "priority_flag" \in DOMAIN Val(encoders)
          /\ Val(expense(h).priority_flag) \notin SeqToSet(Val(encoders).priority_flag)

C10_StatelessRequests ==
    pc = "serving" =>
        /\ bundle_path = Some(PathOf(candidate_names[FirstExisting]))
        /\ loaded = disk[FirstExisting]
        /\ model = Normalise(Val(loaded)).model
        /\ encoders = Normalise(Val(loaded)).encoders
        /\ feature_order = Normalise(Val(loaded)).feature_order
        /\ \A h \in Calls :
              /\ hpc[h] = "root" =>
                    Val(rootResp[h]).bundle_path = PathOf(candidate_names[FirstExisting])
              /\ (hpc[h] = "done" /\ SchemaValid(body[h])) =>
                    LET ref == PredictPure(model, encoders, feature_order, expense(h))
                    IN /\ resp[h] = Some(ref.resp)
                       /\ X[h] = ref.X
                       /\ invoked[h] = ref.invoked

\* After a failed request, one request is answered 200 while another is
\* still in progress.
C10_Witness ==
    /\ anyFailed
    /\ \E h, g \in Calls :
          /\ h # g
          /\ hpc[h] = "done" /\ Status(h) = 200
          /\ hpc[g] \in {"entered", "encoded", "assembled"}

====
